---- MODULE Spec2Model ----
(***************************************************************************)
(* The airline sentiment dashboard of src/app.py as a state machine.       *)
(*                                                                         *)
(* One run of the script is: the module-level statements (session-state    *)
(* defaults, load_data), then main(), which calls apply_dark_theme,        *)
(* render_sidebar and render_main_content in that order.  Streamlit runs   *)
(* the script again after every interaction (Rerun).  An exception that    *)
(* no handler catches ends the run at the statement that raised it.        *)
(*                                                                         *)
(* Encoding.  A timestamp is a record [date, hour]; `.dt.date` keeps the   *)
(* date field.  A DataFrame is a record [columns, rows].  Python's None    *)
(* is the string "None".  A polarity is an integer number of thousandths.  *)
(* A share count/total is kept as the exact pair <<count, total>>.  A      *)
(* cell of an unstacked table is <<n>> for the number n and <<>> for NaN.  *)
(* A text is abstracted to what the code asks of it: whether it is blank   *)
(* (word cloud) and which polarity TextBlob gives it (classifier).         *)
(***************************************************************************)
EXTENDS Integers, Sequences, FiniteSets, TLC

VARIABLES
    csv,            \* the file Tweets.csv as read_csv finds it
    data,           \* the module global `data` (line 36)
    banner,         \* TRUE when st.error was shown by load_data
    session_state,  \* st.session_state: key -> value
    widgets,        \* what the sidebar widgets returned in this run
    pc,             \* 0: module level; i: about to call main[i]; Len(main)+1: done
    error,          \* <<>> or <<exception, line>>: the run ended there
    filter_read,    \* the FilterState values render_main_content read
    filtered_data,  \* the local filtered_data (rows)
    counts,         \* pos_count, neu_count, neg_count, keyed by sentiment
    shares,         \* the three shares, keyed by sentiment
    time_df,        \* the local time_df
    airline_df,     \* the local airline_df
    wordcloud,      \* what tab3 showed
    user_tweet,     \* polarity TextBlob gives the text entered in tab4
    analysis        \* what analyze_sentiment returned for it

vars == <<csv, data, banner, session_state, widgets, pc, error, filter_read,
          filtered_data, counts, shares, time_df, airline_df, wordcloud,
          user_tweet, analysis>>

locals == <<filter_read, filtered_data, counts, shares, time_df, airline_df, wordcloud>>

----------------------------------------------------------------------------
(* Bounds of the model *)

MaxRows == 2

MaxDay == 2

----------------------------------------------------------------------------
(* Values *)

None == "None"

NoError == <<>>

NaN == <<>>

Sentiments == {"positive", "neutral", "negative"}

Days == 0 .. MaxDay

Timestamp(d, h) == [date |-> d, hour |-> h]

Tweet(a, s, ts, t) ==
    [airline |-> a, airline_sentiment |-> s, tweet_created |-> ts, text |-> t]

\* The rows a dataset is drawn from: two airlines and a third whose name
\* differs from the first by case only, all three sentiments, first, inner
\* and last day, times of day from midnight to 23h, one empty text.
SampleTweets ==
    { Tweet("Delta",  "positive", Timestamp(0, 23),      "great flight"),
      Tweet("Delta",  "negative", Timestamp(MaxDay, 7),  "lost my bag"),
      Tweet("United", "neutral",  Timestamp(1, 12),      ""),
      Tweet("delta",  "negative", Timestamp(0, 0),       "late again") }

Columns == {"airline", "airline_sentiment", "tweet_created", "text"}

DataFrame(cols, rows) == [columns |-> cols, rows |-> rows]

EmptyDataFrame == DataFrame({}, <<>>)

NotLoaded == DataFrame({"<unbound>"}, <<>>)

CsvFiles ==
    { [kind |-> k, rows |-> <<>>] : k \in {"missing", "no_tweet_created", "bad_date"} }
    \cup
    { [kind |-> "ok", rows |-> r] : r \in UNION { [1 .. n -> SampleTweets] : n \in 1 .. MaxRows } }

----------------------------------------------------------------------------
(* load_data, lines 26-36 *)

\* pd.read_csv and pd.to_datetime: the exception they raise, or NoError.
read_csv_raises(f) ==
    CASE f.kind = "missing"          -> <<"FileNotFoundError", 29>>
      [] f.kind = "no_tweet_created" -> <<"KeyError", 30>>
      [] f.kind = "bad_date"         -> <<"ParserError", 30>>
      [] OTHER                       -> NoError

load_data(f) ==
    IF read_csv_raises(f) = NoError
    THEN DataFrame(Columns, f.rows)
    ELSE EmptyDataFrame

----------------------------------------------------------------------------
(* analyze_sentiment, lines 39-48 *)

\* 0.1 in thousandths
PositiveThreshold == 100

\* -0.1 in thousandths
NegativeThreshold == -100

\* TextBlob's polarity range [-1.0, 1.0] in thousandths
Polarities == -1000 .. 1000

analyze_sentiment_inclusive(polarity) ==
    IF polarity >= PositiveThreshold THEN <<"positive", polarity>>
    ELSE IF polarity <= NegativeThreshold THEN <<"negative", polarity>>
    ELSE <<"neutral", polarity>>

analyze_sentiment(polarity) ==
    IF polarity > PositiveThreshold THEN <<"positive", polarity>>
    ELSE IF polarity < NegativeThreshold THEN <<"negative", polarity>>
    ELSE <<"neutral", polarity>>

----------------------------------------------------------------------------
(* generate_wordcloud, lines 50-76 *)

\* `not text or text.isspace()` of the joined texts: joining with ' ' gives
\* an empty or all-space string exactly when every joined text is blank.
IsBlank(texts) == \A i \in 1 .. Len(texts) : texts[i] \in {"", " "}

Colormap(sentiment) ==
    CASE sentiment = "positive" -> "viridis"
      [] sentiment = "neutral"  -> "plasma"
      [] sentiment = "negative" -> "Reds"
      [] OTHER                  -> "viridis"

generate_wordcloud(texts, sentiment) ==
    IF IsBlank(texts)
    THEN <<"figure", "No text data available">>
    ELSE <<"figure", Colormap(sentiment)>>

----------------------------------------------------------------------------
(* The filter, lines 178-191 *)

Date(ts) == ts.date

\* A datetime compared with a date taken as that day's midnight.
TimestampLeq(ts, d) == ts.date < d \/ (ts.date = d /\ ts.hour = 0)

\* The date predicate on the timestamps themselves, `.dt.date` left out.
DateFilterNoTruncation(rows, date_range) ==
    IF Len(date_range) = 2
    THEN SelectSeq(rows, LAMBDA r :
             /\ r.tweet_created.date >= date_range[1]
             /\ TimestampLeq(r.tweet_created, date_range[2]))
    ELSE rows

\* A one-date selection taken as the range of that single day.
DateFilterPartial(rows, date_range) ==
    IF Len(date_range) >= 1
    THEN SelectSeq(rows, LAMBDA r :
             /\ r.tweet_created.date >= date_range[1]
             /\ r.tweet_created.date <= date_range[Len(date_range)])
    ELSE rows

AirlineFilter(rows, selected_airline) ==
    IF selected_airline # "All"
    THEN SelectSeq(rows, LAMBDA r : r.airline = selected_airline)
    ELSE rows

DateFilter(rows, date_range) ==
    IF Len(date_range) = 2
    THEN SelectSeq(rows, LAMBDA r :
             /\ Date(r.tweet_created) >= date_range[1]
             /\ Date(r.tweet_created) <= date_range[2])
    ELSE rows

SentimentFilterAlways(rows, sentiment_filter) ==
    SelectSeq(rows, LAMBDA r : r.airline_sentiment \in sentiment_filter)

SentimentFilter(rows, sentiment_filter) ==
    IF sentiment_filter # {}
    THEN SelectSeq(rows, LAMBDA r : r.airline_sentiment \in sentiment_filter)
    ELSE rows

\* The exception lines 178-191 raise on frame df under FilterState fs.
FilterRaises(df, fs) ==
    IF fs.selected_airline # "All" /\ "airline" \notin df.columns
    THEN <<"KeyError", 181>>
    ELSE IF fs.date_range = None
    THEN <<"TypeError", 183>>
    ELSE IF Len(fs.date_range) = 2 /\ "tweet_created" \notin df.columns
    THEN <<"KeyError", 186>>
    ELSE IF fs.sentiment_filter # {} /\ "airline_sentiment" \notin df.columns
    THEN <<"KeyError", 191>>
    ELSE NoError

ApplyFilters(df, fs) ==
    SentimentFilter(
        DateFilter(
            AirlineFilter(df.rows, fs.selected_airline),
            fs.date_range),
        fs.sentiment_filter)

----------------------------------------------------------------------------
(* Key metrics, lines 197-211 *)

Count(rows, sentiment) ==
    Len(SelectSeq(rows, LAMBDA r : r.airline_sentiment = sentiment))

\* The columns are computed in this order; each divides by len(filtered_data).
MetricOrder == <<"positive", "neutral", "negative">>

\* The exception lines 202-211 raise on the filtered rows.
MetricsRaise(rows) ==
    IF Len(rows) = 0 THEN <<"ZeroDivisionError", 205>> ELSE NoError

\* pos_count, neu_count, neg_count as far as they were computed: the
\* division of line 205 raises after pos_count alone.
MetricCounts(rows) ==
    IF Len(rows) = 0
    THEN [s \in {MetricOrder[1]} |-> Count(rows, s)]
    ELSE [s \in Sentiments |-> Count(rows, s)]

\* count/len(filtered_data), as the pair <<count, total>>
MetricShares(rows) ==
    IF Len(rows) = 0
    THEN [s \in {} |-> <<0, 0>>]
    ELSE [s \in Sentiments |-> <<Count(rows, s), Len(rows)>>]

----------------------------------------------------------------------------
(* Trends and Airlines tabs, lines 216-251 *)

Cell(n) == IF n > 0 THEN <<n>> ELSE NaN

\* set_index('tweet_created').resample('D')['airline_sentiment']
\*   .value_counts().unstack(): value_counts lists the (day, sentiment)
\* pairs that occur among the rows; unstack, called without fill_value,
\* makes a row per listed day and a column per listed sentiment and leaves
\* every other cell NaN.
TimeDf(rows) ==
    LET days == { Date(rows[i].tweet_created) : i \in 1 .. Len(rows) }
        cols == { rows[i].airline_sentiment : i \in 1 .. Len(rows) }
    IN  [d \in days |->
            [s \in cols |->
                Cell(Len(SelectSeq(rows, LAMBDA r :
                        Date(r.tweet_created) = d /\ r.airline_sentiment = s)))]]

\* groupby(['airline', 'airline_sentiment']).size().unstack()
AirlineDf(rows) ==
    LET airlines == { rows[i].airline : i \in 1 .. Len(rows) }
        cols == { rows[i].airline_sentiment : i \in 1 .. Len(rows) }
    IN  [a \in airlines |->
            [s \in cols |->
                Cell(Len(SelectSeq(rows, LAMBDA r :
                        r.airline = a /\ r.airline_sentiment = s)))]]

----------------------------------------------------------------------------
(* Word Clouds tab, lines 253-268 *)

Texts(rows) == [i \in 1 .. Len(rows) |-> rows[i].text]

WordCloudTab(rows, sentiment) ==
    LET sentiment_data == SelectSeq(rows, LAMBDA r : r.airline_sentiment = sentiment)
    IN  IF sentiment_data # <<>>
        THEN generate_wordcloud(Texts(sentiment_data), sentiment)
        ELSE <<"warning", sentiment>>

\* Lines 178-263 rebind locals only: data.copy(), boolean indexing,
\* set_index and groupby all return new frames.  A filter written in place
\* (data = data[...]) would leave the filtered rows in the store.
DataAfterRenderInPlace(df, rows) == [df EXCEPT !.rows = rows]

DataAfterRender(df, rows) == df

----------------------------------------------------------------------------
(* Session state, lines 17-23, and the sidebar, lines 144-173 *)

FilterState(airline, date_range, sentiment_filter) ==
    [selected_airline |-> airline,
     date_range       |-> date_range,
     sentiment_filter |-> sentiment_filter]

SessionDefaults == FilterState("All", None, Sentiments)

NoSelection == <<>>

\* ["All"] + sorted(data['airline'].unique().tolist()): what st.selectbox can return
airlines(df) == {"All"} \cup { df.rows[i].airline : i \in 1 .. Len(df.rows) }

min_date(df) ==
    CHOOSE d \in Days : /\ \E i \in 1 .. Len(df.rows) : Date(df.rows[i].tweet_created) = d
                        /\ \A i \in 1 .. Len(df.rows) : Date(df.rows[i].tweet_created) >= d

max_date(df) ==
    CHOOSE d \in Days : /\ \E i \in 1 .. Len(df.rows) : Date(df.rows[i].tweet_created) = d
                        /\ \A i \in 1 .. Len(df.rows) : Date(df.rows[i].tweet_created) <= d

\* What st.date_input can return for a range value: the value itself, or
\* the user's selection, a tuple of no, one or two dates.
date_input(value) ==
    {value} \cup {<<>>} \cup { <<d>> : d \in Days }
            \cup { p \in Days \X Days : p[1] <= p[2] }

\* What st.multiselect can return
multiselect(options) == SUBSET options

SidebarRaises(df) ==
    IF "airline" \notin df.columns THEN <<"KeyError", 150>>
    ELSE IF "tweet_created" \notin df.columns THEN <<"KeyError", 158>>
    ELSE NoError

----------------------------------------------------------------------------
(* main, lines 296-299 *)

mainContentFirst == <<"apply_dark_theme", "render_main_content", "render_sidebar">>

main == <<"apply_dark_theme", "render_sidebar", "render_main_content">>

Done == Len(main) + 1

\* The call main is about to make
Step == IF error = NoError /\ pc \in 1 .. Len(main) THEN main[pc] ELSE "none"

----------------------------------------------------------------------------
(* The state machine *)

NoLocals ==
    /\ filter_read = NoSelection
    /\ filtered_data = <<>>
    /\ counts = <<>>
    /\ shares = <<>>
    /\ time_df = <<>>
    /\ airline_df = <<>>
    /\ wordcloud = <<>>

\* A session before its first run
Fresh ==
    /\ data = NotLoaded
    /\ banner = FALSE
    /\ session_state = <<>>
    /\ widgets = NoSelection
    /\ pc = 0
    /\ error = NoError
    /\ NoLocals
    /\ analysis = <<>>

Init ==
    /\ csv \in CsvFiles
    /\ user_tweet = 0
    /\ Fresh

\* Lines 17-36: the session-state defaults, then data = load_data()
TopLevel ==
    /\ pc = 0
    /\ error = NoError
    /\ session_state' =
          [k \in DOMAIN SessionDefaults |->
              IF k \in DOMAIN session_state THEN session_state[k] ELSE SessionDefaults[k]]
    /\ data' = load_data(csv)
    /\ banner' = (read_csv_raises(csv) # NoError)
    /\ pc' = 1
    /\ UNCHANGED <<csv, widgets, error, locals, user_tweet, analysis>>

\* Lines 79-141: markup only
ApplyDarkTheme ==
    /\ Step = "apply_dark_theme"
    /\ pc' = pc + 1
    /\ UNCHANGED <<csv, data, banner, session_state, widgets, error, locals,
                   user_tweet, analysis>>

\* Lines 144-173
RenderSidebar ==
    /\ Step = "render_sidebar"
    /\ IF SidebarRaises(data) # NoError
       THEN /\ error' = SidebarRaises(data)
            /\ UNCHANGED <<session_state, widgets, pc>>
       ELSE \E airline \in airlines(data),
               date_range \in date_input(<<min_date(data), max_date(data)>>),
               sentiment_filter \in multiselect(Sentiments) :
                /\ session_state' = [session_state EXCEPT
                                        !.selected_airline = airline,
                                        !.date_range = date_range,
                                        !.sentiment_filter = sentiment_filter]
                /\ widgets' = FilterState(airline, date_range, sentiment_filter)
                /\ pc' = pc + 1
                /\ error' = error
    /\ UNCHANGED <<csv, data, banner, locals, user_tweet, analysis>>

\* Lines 176-293, the Analyze button not pressed
RenderMainContent ==
    /\ Step = "render_main_content"
    /\ filter_read' = session_state
    /\ IF FilterRaises(data, session_state) # NoError
       THEN /\ error' = FilterRaises(data, session_state)
            /\ data' = data
            /\ UNCHANGED <<pc, filtered_data, counts, shares, time_df, airline_df, wordcloud>>
       ELSE LET rows == ApplyFilters(data, session_state)
            IN  /\ filtered_data' = rows
                /\ data' = DataAfterRender(data, rows)
                /\ counts' = MetricCounts(rows)
                /\ shares' = MetricShares(rows)
                /\ IF MetricsRaise(rows) # NoError
                   THEN /\ error' = MetricsRaise(rows)
                        /\ UNCHANGED <<pc, time_df, airline_df, wordcloud>>
                   ELSE /\ time_df' = TimeDf(rows)
                        /\ airline_df' = AirlineDf(rows)
                        /\ \E sentiment \in Sentiments :
                              wordcloud' = WordCloudTab(rows, sentiment)
                        /\ pc' = pc + 1
                        /\ error' = error
    /\ UNCHANGED <<csv, banner, session_state, widgets, user_tweet, analysis>>

\* An interaction: Streamlit runs the script again from the top; the
\* session state persists, the module globals and locals do not.
Rerun ==
    /\ pc = Done \/ error # NoError
    /\ pc' = 0
    /\ error' = NoError
    /\ data' = NotLoaded
    /\ banner' = FALSE
    /\ widgets' = NoSelection
    /\ filter_read' = NoSelection
    /\ filtered_data' = <<>>
    /\ counts' = <<>>
    /\ shares' = <<>>
    /\ time_df' = <<>>
    /\ airline_df' = <<>>
    /\ wordcloud' = <<>>
    /\ UNCHANGED <<csv, session_state, user_tweet, analysis>>

Next ==
    \/ TopLevel
    \/ ApplyDarkTheme
    \/ RenderSidebar
    \/ RenderMainContent
    \/ Rerun

Spec == Init /\ [][Next]_vars

----------------------------------------------------------------------------
(* The Live Analysis tab alone, lines 270-293: a text is entered, of any    *)
(* polarity of TextBlob's range, and the Analyze button is pressed.         *)

InitClassify ==
    /\ csv \in { f \in CsvFiles : Len(f.rows) <= 1 }
    /\ user_tweet \in Polarities
    /\ Fresh

AnalyzeClick ==
    /\ analysis = <<>>
    /\ analysis' = analyze_sentiment(user_tweet)
    /\ UNCHANGED <<csv, data, banner, session_state, widgets, pc, error, locals, user_tweet>>

NextClassify == AnalyzeClick

SpecClassify == InitClassify /\ [][NextClassify]_vars

----------------------------------------------------------------------------
(* Vocabulary of the properties *)

\* render_main_content has acted in this run
MainContentActed == filter_read # NoSelection

FilterErrors ==
    { <<"KeyError", 181>>, <<"TypeError", 183>>, <<"KeyError", 186>>, <<"KeyError", 191>> }

\* the filter step of render_main_content ran to its end
FilterReturned == MainContentActed /\ error \notin FilterErrors

RunEnded == pc = Done \/ error # NoError

LoadFailed == csv.kind # "ok"

AirlineKeeps(fs, r) ==
    fs.selected_airline = "All" \/ r.airline = fs.selected_airline

DateKeeps(fs, r) ==
    /\ r.tweet_created.date >= fs.date_range[1]
    /\ r.tweet_created.date <= fs.date_range[2]

SentimentKeeps(fs, r) == r.airline_sentiment \in fs.sentiment_filter

RECURSIVE IsSubsequence(_, _)
IsSubsequence(s, t) ==
    IF s = <<>> THEN TRUE
    ELSE IF t = <<>> THEN FALSE
    ELSE IF Head(s) = Head(t) THEN IsSubsequence(Tail(s), Tail(t))
    ELSE IsSubsequence(s, Tail(t))

FilteredDates == { filtered_data[i].tweet_created.date : i \in 1 .. Len(filtered_data) }

----------------------------------------------------------------------------
(* Properties *)

C2_ZeroTotalSharesAreZero ==
    (FilterReturned /\ Len(filtered_data) = 0) =>
        /\ error = NoError
        /\ pc = Done
        /\ \A s \in Sentiments : s \in DOMAIN shares /\ shares[s][1] = 0

\* C3: after a failed load the run reaches its end, on the empty store, with
\* all counts zero and no unhandled error.
C3_LoadFailureGivesEmptyDashboard ==
    (LoadFailed /\ RunEnded) =>
        /\ data = EmptyDataFrame
        /\ error = NoError
        /\ pc = Done
        /\ \A s \in Sentiments : s \in DOMAIN counts /\ counts[s] = 0

\* C4: the filter step never raises, its result is a subsequence of the
\* store's records in their order, and a date range that is not a complete
\* pair restricts nothing.
C4_FilterTotalAndStable ==
    MainContentActed =>
        /\ error \notin FilterErrors
        /\ IsSubsequence(filtered_data, data.rows)
        /\ Len(filter_read.date_range) # 2 =>
              filtered_data = SelectSeq(data.rows, LAMBDA r :
                  /\ AirlineKeeps(filter_read, r)
                  /\ filter_read.sentiment_filter # {} => SentimentKeeps(filter_read, r))

\* C4 witness: a one-date selection, and a kept record of another day.
C4_Witness ==
    /\ FilterReturned
    /\ Len(filter_read.date_range) = 1
    /\ Len(data.rows) > Len(filtered_data)
    /\ \E i \in 1 .. Len(filtered_data) :
          filtered_data[i].tweet_created.date # filter_read.date_range[1]

\* C5: with a complete date range and a non-empty sentiment set the result
\* is exactly the store's records that pass the airline, the date (time of
\* day dropped, both ends included) and the sentiment predicate.
C5_ExactConjunction ==
    (FilterReturned /\ Len(filter_read.date_range) = 2 /\ filter_read.sentiment_filter # {}) =>
        filtered_data = SelectSeq(data.rows, LAMBDA r :
            /\ AirlineKeeps(filter_read, r)
            /\ DateKeeps(filter_read, r)
            /\ SentimentKeeps(filter_read, r))

\* C5 witness: one airline selected; a record created after midnight on the
\* end date is kept and another record is dropped.
C5_Witness ==
    /\ FilterReturned
    /\ Len(filter_read.date_range) = 2
    /\ filter_read.sentiment_filter # {}
    /\ filter_read.selected_airline # "All"
    /\ Len(filtered_data) < Len(data.rows)
    /\ \E i \in 1 .. Len(filtered_data) :
          /\ filtered_data[i].tweet_created.date = filter_read.date_range[2]
          /\ filtered_data[i].tweet_created.hour > 0

\* C6: the label is positive exactly above 0.1, negative exactly below -0.1
\* and neutral otherwise, and the polarity returned is the one scored.
C6_StrictThresholds ==
    analysis # <<>> =>
        /\ analysis[2] = user_tweet
        /\ analysis[1] \in Sentiments
        /\ analysis[1] = "positive" <=> user_tweet > 100
        /\ analysis[1] = "negative" <=> user_tweet < -100
        /\ analysis[1] = "neutral" <=> (user_tweet >= -100 /\ user_tweet <= 100)

\* C6 witness: polarity exactly 0.1 is classified neutral.
C6_Witness == analysis = <<"neutral", 100>>

\* C7: the three counts are all present and sum to the size of the filtered
\* set; when it is not empty the three shares sum to 1.
C7_CountsSumToTotal ==
    FilterReturned =>
        /\ DOMAIN counts = Sentiments
        /\ counts["positive"] + counts["neutral"] + counts["negative"] = Len(filtered_data)
        /\ Len(filtered_data) > 0 =>
              /\ DOMAIN shares = Sentiments
              /\ \A s \in Sentiments : shares[s][2] = Len(filtered_data)
              /\ shares["positive"][1] + shares["neutral"][1] + shares["negative"][1]
                    = Len(filtered_data)

\* C8: the daily table has one row for every day from the first to the last
\* day of the filtered records, and every row has a number, 0 included, for
\* each of the three sentiments.
C8_DenseDailyGrid ==
    (MainContentActed /\ pc = Done) =>
        /\ \A d \in Days :
              d \in DOMAIN time_df <=>
                  /\ \E e \in FilteredDates : e <= d
                  /\ \E e \in FilteredDates : e >= d
        /\ \A d \in DOMAIN time_df :
              /\ DOMAIN time_df[d] = Sentiments
              /\ \A s \in Sentiments : Len(time_df[d][s]) = 1

\* C9: whatever the runs before it filtered, the store of a run holds the
\* records of the dataset, all of them, in the dataset's order.
C9_StoreUnchanged ==
    data # NotLoaded => data.rows = csv.rows

\* C9 witness: a run that ended after the filter dropped records.
C9_Witness ==
    /\ pc = Done
    /\ Len(filtered_data) < Len(data.rows)
    /\ wordcloud # <<>>

\* C10: what render_main_content reads is what render_sidebar wrote in the
\* same run, all three fields, and the date range read is never None.
C10_SidebarWritesBeforeMainReads ==
    MainContentActed =>
        /\ widgets # NoSelection
        /\ filter_read = widgets
        /\ filter_read.date_range # None

\* C10 witness: a later run in which the user's selection differs from the
\* session defaults in every field and the main content read it.
C10_Witness ==
    /\ MainContentActed
    /\ widgets # NoSelection
    /\ filter_read.selected_airline # "All"
    /\ Len(filter_read.date_range) = 1
    /\ filter_read.sentiment_filter = {"negative"}

====
